---- MODULE Spec2Model ----
(***************************************************************************)
(* Model of the payment API of src/src/main.rs: the handler                *)
(* process_payment, the simulated gateway client                           *)
(* call_external_payment_gateway, the transactions table and the           *)
(* conversion of AppError into an HTTP response.                           *)
(*                                                                         *)
(* A Rust String is a sequence of characters, each a one-character TLA+    *)
(* string; String::len, slicing and starts_with work on UTF-8 bytes, so    *)
(* every character carries its encoded width (Utf8Len).                    *)
(***************************************************************************)
EXTENDS Integers, Sequences, FiniteSets, TLC

\* ------------------------------------------------------------------ bounds

\* Number of requests that may be in flight together.
NumReq == 2

Reqs == 1..NumReq

\* ------------------------------------------------------------------ strings

\* Encoded width in bytes of one character (the model's alphabet has ASCII
\* characters and the two-byte character "é").
Utf8Len(ch) == IF ch = "é" THEN 2 ELSE 1

RECURSIVE byte_offset(_, _)
\* The length in bytes of the first k characters of s: the byte offset at
\* which the character after them starts.
byte_offset(s, k) == IF k = 0 THEN 0 ELSE byte_offset(s, k - 1) + Utf8Len(s[k])

\* String::len: the length in bytes.
len(s) == byte_offset(s, Len(s))

\* The first k characters of s.
Take(s, k) == SubSeq(s, 1, k)

\* The characters of s after the first k.
Drop(s, k) == SubSeq(s, k + 1, Len(s))

\* str::is_char_boundary: byte offset i starts a character of s or is its end.
is_char_boundary(s, i) == \E k \in 0..Len(s) : byte_offset(s, k) = i

\* str::starts_with
starts_with(s, p) == Len(s) >= Len(p) /\ Take(s, Len(p)) = p

\* The outcome of a slice: the characters, or a panic.
Sliced(s) == [panic |-> FALSE, str |-> s]
SlicePanic == [panic |-> TRUE, str |-> <<>>]

\* &s[i..]: the suffix from byte offset i; panics when i is past the end or
\* inside a character.
slice_from(s, i) ==
    IF i < 0 \/ i > len(s) \/ ~is_char_boundary(s, i)
    THEN SlicePanic
    ELSE Sliced(Drop(s, CHOOSE k \in 0..Len(s) : byte_offset(s, k) = i))

\* &s[..i]: the prefix up to byte offset i; panics when i is past the end or
\* inside a character.
slice_to(s, i) ==
    IF i < 0 \/ i > len(s) \/ ~is_char_boundary(s, i)
    THEN SlicePanic
    ELSE Sliced(Take(s, CHOOSE k \in 0..Len(s) : byte_offset(s, k) = i))

RECURSIVE Rep(_, _)
\* n copies of the character ch.
Rep(ch, n) == IF n = 0 THEN <<>> ELSE <<ch>> \o Rep(ch, n - 1)

\* ------------------------------------------------------------------ inputs

Prefix4000 == <<"4", "0", "0", "0">>
Prefix4111 == <<"4", "1", "1", "1">>

\* ASCII card numbers: 11 and 20 bytes with prefix 4111, two of 12 bytes
\* with prefix 4111 that differ in their fifth digit only, and one of 19
\* bytes with prefix 4000.
AsciiCards ==
    { Prefix4111 \o Rep("0", n) \o <<"1", "2", "3", "4">> : n \in {3, 12} }
    \cup { Prefix4111 \o <<d>> \o Rep("0", 3) \o <<"1", "2", "3", "4">> :
             d \in {"0", "1"} }
    \cup { Prefix4000 \o Rep("0", 11) \o <<"1", "2", "3", "4">> }

\* 13 bytes; byte offset len - 4 falls inside the two-byte character.
SplitCards ==
    { p \o Rep("0", 4) \o <<"é", "2", "3", "4">> : p \in {Prefix4000, Prefix4111} }

\* 12 bytes in 11 characters; byte offset len - 4 starts the two-byte character.
AlignedCards == { Prefix4111 \o Rep("0", 4) \o <<"é", "3", "4">> }

\* Shorter than the 4 bytes the mask keeps.
ShortCards == { <<"4", "1", "1">> }

Cards == AsciiCards \cup SplitCards \cup AlignedCards \cup ShortCards

Amounts == {-1, 0, 1000}

Currencies == {"USD", "TRY"}

\* The card numbers sent with currency TRY (the others come with USD).
CardsInTRY == { Prefix4000 \o Rep("0", 11) \o <<"1", "2", "3", "4">> }

\* The card numbers sent with a non-positive amount: a valid one, one that is
\* too long and one whose mask would panic.
CardsWithBadAmount ==
    { Prefix4111 \o Rep("0", n) \o <<"1", "2", "3", "4">> : n \in {4, 12} }
    \cup { Prefix4111 \o Rep("0", 4) \o <<"é", "2", "3", "4">> }

\* PaymentRequest: every card number with the positive amount, the cards of
\* CardsWithBadAmount with the other amounts; each card with its currency.
PaymentRequests ==
    { pd \in [amount : Amounts, currency : Currencies, card_number : Cards,
              expiry_month : {12}, expiry_year : {2030}, cvv : {"123"}] :
        /\ pd.amount > 0 \/ pd.card_number \in CardsWithBadAmount
        /\ (pd.currency = "TRY") <=> (pd.card_number \in CardsInTRY) }

\* Values of PAYMENT_GATEWAY_API_KEY: empty, shorter than 5 bytes, 5 bytes,
\* and one whose byte offset 5 falls inside a character.
ApiKeys ==
    { <<>>,
      <<"s", "k">>,
      <<"s", "k", "_", "l", "i">>,
      <<"s", "k", "_", "l", "é", "v">> }

\* sqlx::Error values the INSERT may fail with.
SqlxErrors == {"PoolTimedOut"}

\* ------------------------------------------------------------------ errors

\* AppError
BadRequest(msg) == [kind |-> "BadRequest", msg |-> msg]
EnvironmentError(msg) == [kind |-> "EnvironmentError", msg |-> msg]
GatewayError(msg) == [kind |-> "GatewayError", msg |-> msg]
InternalServerError(msg) == [kind |-> "InternalServerError", msg |-> msg]
\* From<sqlx::Error> for AppError
DatabaseError(err) == [kind |-> "DatabaseError", msg |-> err]

\* into_response echoing the driver's error for a DatabaseError.
into_response_verbose(e) ==
    CASE e.kind = "InternalServerError" -> [status |-> 500, error |-> e.msg]
      [] e.kind = "BadRequest" -> [status |-> 400, error |-> e.msg]
      [] e.kind = "DatabaseError" -> [status |-> 500, error |-> e.msg]
      [] e.kind = "EnvironmentError" -> [status |-> 500, error |-> e.msg]
      [] e.kind = "GatewayError" -> [status |-> 502, error |-> e.msg]

\* into_response answering a GatewayError with 500.
into_response_gateway_500(e) ==
    CASE e.kind = "InternalServerError" -> [status |-> 500, error |-> e.msg]
      [] e.kind = "BadRequest" -> [status |-> 400, error |-> e.msg]
      [] e.kind = "DatabaseError" ->
            [status |-> 500, error |-> "Database operation failed."]
      [] e.kind = "EnvironmentError" -> [status |-> 500, error |-> e.msg]
      [] e.kind = "GatewayError" -> [status |-> 500, error |-> e.msg]

\* IntoResponse for AppError: the status and the JSON body {"error": ...}.
into_response(e) ==
    CASE e.kind = "InternalServerError" -> [status |-> 500, error |-> e.msg]
      [] e.kind = "BadRequest" -> [status |-> 400, error |-> e.msg]
      [] e.kind = "DatabaseError" ->
            [status |-> 500, error |-> "Database operation failed."]
      [] e.kind = "EnvironmentError" -> [status |-> 500, error |-> e.msg]
      [] e.kind = "GatewayError" -> [status |-> 502, error |-> e.msg]

\* ------------------------------------------------------------------ results

\* Result<T, AppError>, and a panic that unwinds out of the function.
Ok(v) == [tag |-> "Ok", val |-> v]
Err(e) == [tag |-> "Err", err |-> e]
Panic == [tag |-> "Panic"]
None == [tag |-> "None"]

\* Uuid::to_string: the hyphenated text of a UUID.
to_string(u) == <<"uuid", u>>

\* PaymentResponse::new_success
new_success(transaction_id, message) ==
    [success |-> TRUE, transaction_id |-> transaction_id, message |-> message]

\* PaymentResponse::new_failure
new_failure(transaction_id, message) ==
    [success |-> FALSE, transaction_id |-> transaction_id, message |-> message]

\* IntoResponse for Result<Json<PaymentResponse>, AppError>: Json answers 200
\* with the response as body, an AppError answers through into_response.
http_response(res) ==
    IF res.tag = "Ok"
    THEN [status |-> 200, body |-> res.val]
    ELSE [status |-> into_response(res.err).status,
          body |-> [error |-> into_response(res.err).error]]

\* ------------------------------------------------------------------ stages

\* basic_validation with the amount rule off by one (amount < 0).
basic_validation_lt(payment_data) ==
    IF payment_data.amount < 0
    THEN Err(BadRequest("Payment amount must be greater than zero."))
    ELSE IF len(payment_data.card_number) < 12 \/ len(payment_data.card_number) > 19
    THEN Err(BadRequest("Invalid card number."))
    ELSE Ok("valid")

\* basic_validation with the card number rule checked first.
basic_validation_card_first(payment_data) ==
    IF len(payment_data.card_number) < 12 \/ len(payment_data.card_number) > 19
    THEN Err(BadRequest("Invalid card number."))
    ELSE IF payment_data.amount <= 0
    THEN Err(BadRequest("Payment amount must be greater than zero."))
    ELSE Ok("valid")

\* process_payment, step 1: the two validation rules, in order.
basic_validation(payment_data) ==
    IF payment_data.amount <= 0
    THEN Err(BadRequest("Payment amount must be greater than zero."))
    ELSE IF len(payment_data.card_number) < 12 \/ len(payment_data.card_number) > 19
    THEN Err(BadRequest("Invalid card number."))
    ELSE Ok("valid")

MaskPrefix ==
    <<"X", "X", "X", "X", "-", "X", "X", "X", "X", "-", "X", "X", "X", "X", "-">>

\* masked_card keeping the last 8 bytes of the card number instead of 4.
masked_card_last_eight(card_number) ==
    LET s == slice_from(card_number, len(card_number) - 8)
    IN IF s.panic THEN Panic ELSE Ok(MaskPrefix \o s.str)

\* format!("XXXX-XXXX-XXXX-{}", &card_number[card_number.len() - 4..])
\* (len() - 4 on usize overflows below 4 bytes: a panic, or a wrapped offset
\* past the end, which panics in the slice).
masked_card(card_number) ==
    LET s == slice_from(card_number, len(card_number) - 4)
    IN IF s.panic THEN Panic ELSE Ok(MaskPrefix \o s.str)

\* call_external_payment_gateway without the decline rule.
gateway_no_decline(api_key_, data) ==
    IF api_key_ = <<>>
    THEN Err(EnvironmentError("API Key is missing."))
    ELSE IF slice_to(api_key_, 5).panic
    THEN Panic
    ELSE Ok(<<"SUCCESS", "Payment successfully processed by external gateway.">>)

\* call_external_payment_gateway without the credential check.
gateway_no_key_check(api_key_, data) ==
    IF starts_with(data.card_number, Prefix4000)
    THEN Ok(<<"FAILED", "Card declined: Insufficient funds (Simulation).">>)
    ELSE IF slice_to(api_key_, 5).panic
    THEN Panic
    ELSE Ok(<<"SUCCESS", "Payment successfully processed by external gateway.">>)

\* call_external_payment_gateway
call_external_payment_gateway(api_key_, data) ==
    IF api_key_ = <<>>
    THEN Err(EnvironmentError("API Key is missing."))
    ELSE IF starts_with(data.card_number, Prefix4000)
    THEN Ok(<<"FAILED", "Card declined: Insufficient funds (Simulation).">>)
    ELSE IF slice_to(api_key_, 5).panic
    THEN Panic
    ELSE Ok(<<"SUCCESS", "Payment successfully processed by external gateway.">>)

\* ------------------------------------------------------------------ state

VARIABLES
    api_key,        \* AppState.api_key
    transactions,   \* the rows of table transactions, in insertion order
    uuid_source,    \* the UUIDs Uuid::new_v4 has handed out so far
    pc,             \* per request: its position in process_payment
    payment_data,   \* per request: the PaymentRequest
    masked,         \* per request: masked_card
    transaction_uuid, \* per request: transaction_uuid
    gateway,        \* per request: (status, response_message)
    insert_result,  \* per request: what the INSERT returned
    result,         \* per request: what process_payment returned
    gateway_calls,  \* per request: calls of call_external_payment_gateway
    store_writes,   \* per request: executions of the INSERT
    app_error,      \* the AppError handed to into_response
    error_response  \* the (status, error message) into_response made of it

vars == <<api_key, transactions, uuid_source, pc, payment_data, masked,
          transaction_uuid, gateway, insert_result, result, gateway_calls,
          store_writes, app_error, error_response>>

\* No AppError is being converted, and no response has been made of one.
NoError == [kind |-> "None", msg |-> ""]
NoResponse == [status |-> 0, error |-> ""]

\* new_v4 returning the same UUID on every call.
new_v4_fixed(issued) == 1

\* Uuid::new_v4: a UUID no earlier call returned.
new_v4(issued) == issued + 1

\* The row the INSERT adds (id is the table's serial column).
Row(id, uuid, amount, currency, status, masked_card_number) ==
    [id |-> id, transaction_uuid |-> uuid, amount |-> amount,
     currency |-> currency, status |-> status,
     masked_card_number |-> masked_card_number]

\* No request has arrived and the table is empty.
Idle ==
    /\ transactions = <<>>
    /\ uuid_source = 0
    /\ pc = [r \in Reqs |-> "idle"]
    /\ payment_data = [r \in Reqs |-> None]
    /\ masked = [r \in Reqs |-> <<>>]
    /\ transaction_uuid = [r \in Reqs |-> 0]
    /\ gateway = [r \in Reqs |-> None]
    /\ insert_result = [r \in Reqs |-> None]
    /\ result = [r \in Reqs |-> None]
    /\ gateway_calls = [r \in Reqs |-> 0]
    /\ store_writes = [r \in Reqs |-> 0]

Init ==
    /\ api_key \in ApiKeys
    /\ Idle
    /\ app_error = NoError
    /\ error_response = NoResponse

\* process_payment up to the gateway call: validation, masking and the
\* generation of the transaction identifier.
Receive(r, data) ==
    /\ pc[r] = "idle"
    /\ payment_data' = [payment_data EXCEPT ![r] = data]
    /\ LET v == basic_validation(data)
           m == masked_card(data.card_number)
       IN IF v.tag = "Err"
          THEN /\ pc' = [pc EXCEPT ![r] = "done"]
               /\ result' = [result EXCEPT ![r] = v]
               /\ UNCHANGED <<masked, transaction_uuid, uuid_source>>
          ELSE IF m.tag = "Panic"
          THEN /\ pc' = [pc EXCEPT ![r] = "panicked"]
               /\ result' = [result EXCEPT ![r] = Panic]
               /\ UNCHANGED <<masked, transaction_uuid, uuid_source>>
          ELSE /\ pc' = [pc EXCEPT ![r] = "gateway"]
               /\ masked' = [masked EXCEPT ![r] = m.val]
               /\ uuid_source' = new_v4(uuid_source)
               /\ transaction_uuid' = [transaction_uuid EXCEPT ![r] = new_v4(uuid_source)]
               /\ UNCHANGED result
    /\ UNCHANGED <<app_error, error_response, api_key, transactions, gateway, insert_result, gateway_calls,
                   store_writes>>

\* GatewayCall taking a gateway error for a decline and going on to persist.
GatewayCall_error_as_decline(r) ==
    /\ pc[r] = "gateway"
    /\ gateway_calls' = [gateway_calls EXCEPT ![r] = @ + 1]
    /\ LET g == call_external_payment_gateway(api_key, payment_data[r])
       IN CASE g.tag = "Ok" ->
                 /\ pc' = [pc EXCEPT ![r] = "persist"]
                 /\ gateway' = [gateway EXCEPT ![r] = g]
                 /\ UNCHANGED result
            [] g.tag = "Err" ->
                 /\ pc' = [pc EXCEPT ![r] = "persist"]
                 /\ gateway' = [gateway EXCEPT ![r] = Ok(<<"FAILED", g.err.msg>>)]
                 /\ UNCHANGED result
            [] g.tag = "Panic" ->
                 /\ pc' = [pc EXCEPT ![r] = "panicked"]
                 /\ result' = [result EXCEPT ![r] = Panic]
                 /\ gateway' = [gateway EXCEPT ![r] = g]
    /\ UNCHANGED <<app_error, error_response, api_key, transactions, uuid_source, payment_data, masked,
                   transaction_uuid, insert_result, store_writes>>

\* GatewayCall keeping the gateway's decision in one slot shared by the
\* requests that wait for their INSERT.
GatewayCall_shared_outcome(r) ==
    /\ pc[r] = "gateway"
    /\ gateway_calls' = [gateway_calls EXCEPT ![r] = @ + 1]
    /\ LET g == call_external_payment_gateway(api_key, payment_data[r])
       IN CASE g.tag = "Ok" ->
                 /\ pc' = [pc EXCEPT ![r] = "persist"]
                 /\ gateway' = [q \in Reqs |->
                                  IF q = r \/ pc[q] = "persist" THEN g ELSE gateway[q]]
                 /\ UNCHANGED result
            [] g.tag = "Err" ->
                 /\ pc' = [pc EXCEPT ![r] = "done"]
                 /\ result' = [result EXCEPT ![r] = g]
                 /\ gateway' = [gateway EXCEPT ![r] = g]
            [] g.tag = "Panic" ->
                 /\ pc' = [pc EXCEPT ![r] = "panicked"]
                 /\ result' = [result EXCEPT ![r] = Panic]
                 /\ gateway' = [gateway EXCEPT ![r] = g]
    /\ UNCHANGED <<app_error, error_response, api_key, transactions, uuid_source,
                   payment_data, masked, transaction_uuid, insert_result,
                   store_writes>>

\* process_payment, step 2: call_external_payment_gateway(...).await?
GatewayCall(r) ==
    /\ pc[r] = "gateway"
    /\ gateway_calls' = [gateway_calls EXCEPT ![r] = @ + 1]
    /\ LET g == call_external_payment_gateway(api_key, payment_data[r])
       IN CASE g.tag = "Ok" ->
                 /\ pc' = [pc EXCEPT ![r] = "persist"]
                 /\ gateway' = [gateway EXCEPT ![r] = g]
                 /\ UNCHANGED result
            [] g.tag = "Err" ->
                 /\ pc' = [pc EXCEPT ![r] = "done"]
                 /\ result' = [result EXCEPT ![r] = g]
                 /\ gateway' = [gateway EXCEPT ![r] = g]
            [] g.tag = "Panic" ->
                 /\ pc' = [pc EXCEPT ![r] = "panicked"]
                 /\ result' = [result EXCEPT ![r] = Panic]
                 /\ gateway' = [gateway EXCEPT ![r] = g]
    /\ UNCHANGED <<app_error, error_response, api_key, transactions, uuid_source, payment_data, masked,
                   transaction_uuid, insert_result, store_writes>>

\* PersistOk writing over the table's latest row instead of appending.
PersistOk_overwrite(r) ==
    /\ pc[r] = "persist"
    /\ store_writes' = [store_writes EXCEPT ![r] = @ + 1]
    /\ transactions' =
          IF transactions = <<>>
          THEN <<Row(1, transaction_uuid[r], payment_data[r].amount,
                     payment_data[r].currency, gateway[r].val[1], masked[r])>>
          ELSE [transactions EXCEPT ![Len(transactions)] =
                   Row(Len(transactions), transaction_uuid[r],
                       payment_data[r].amount, payment_data[r].currency,
                       gateway[r].val[1], masked[r])]
    /\ insert_result' = [insert_result EXCEPT ![r] = Ok("done")]
    /\ pc' = [pc EXCEPT ![r] = "respond"]
    /\ UNCHANGED <<app_error, error_response, api_key, uuid_source, payment_data,
                   masked, transaction_uuid, gateway, result, gateway_calls>>

\* PersistOk writing status SUCCESS whatever the gateway decided.
PersistOk_status_success(r) ==
    /\ pc[r] = "persist"
    /\ store_writes' = [store_writes EXCEPT ![r] = @ + 1]
    /\ transactions' =
          Append(transactions,
                 Row(Len(transactions) + 1, transaction_uuid[r],
                     payment_data[r].amount, payment_data[r].currency,
                     "SUCCESS", masked[r]))
    /\ insert_result' = [insert_result EXCEPT ![r] = Ok("done")]
    /\ pc' = [pc EXCEPT ![r] = "respond"]
    /\ UNCHANGED <<app_error, error_response, api_key, uuid_source, payment_data,
                   masked, transaction_uuid, gateway, result, gateway_calls>>

\* PersistOk writing currency USD whatever the request says.
PersistOk_currency_usd(r) ==
    /\ pc[r] = "persist"
    /\ store_writes' = [store_writes EXCEPT ![r] = @ + 1]
    /\ transactions' =
          Append(transactions,
                 Row(Len(transactions) + 1, transaction_uuid[r],
                     payment_data[r].amount, "USD",
                     gateway[r].val[1], masked[r]))
    /\ insert_result' = [insert_result EXCEPT ![r] = Ok("done")]
    /\ pc' = [pc EXCEPT ![r] = "respond"]
    /\ UNCHANGED <<app_error, error_response, api_key, uuid_source, payment_data,
                   masked, transaction_uuid, gateway, result, gateway_calls>>

\* process_payment, step 3: the INSERT succeeds and adds one row.
PersistOk(r) ==
    /\ pc[r] = "persist"
    /\ store_writes' = [store_writes EXCEPT ![r] = @ + 1]
    /\ transactions' =
          Append(transactions,
                 Row(Len(transactions) + 1, transaction_uuid[r],
                     payment_data[r].amount, payment_data[r].currency,
                     gateway[r].val[1], masked[r]))
    /\ insert_result' = [insert_result EXCEPT ![r] = Ok("done")]
    /\ pc' = [pc EXCEPT ![r] = "respond"]
    /\ UNCHANGED <<app_error, error_response, api_key, uuid_source, payment_data, masked, transaction_uuid,
                   gateway, result, gateway_calls>>

\* PersistErr leaving the request at the INSERT, to run it again.
PersistErr_retry(r, e) ==
    /\ pc[r] = "persist"
    /\ store_writes' = [store_writes EXCEPT ![r] = @ + 1]
    /\ insert_result' = [insert_result EXCEPT ![r] = Err(e)]
    /\ UNCHANGED <<app_error, error_response, api_key, transactions, uuid_source, pc, payment_data, masked,
                   transaction_uuid, gateway, result, gateway_calls>>

\* process_payment, step 3: the INSERT fails; `?` returns the DatabaseError.
PersistErr(r, e) ==
    /\ pc[r] = "persist"
    /\ store_writes' = [store_writes EXCEPT ![r] = @ + 1]
    /\ insert_result' = [insert_result EXCEPT ![r] = Err(e)]
    /\ pc' = [pc EXCEPT ![r] = "done"]
    /\ result' = [result EXCEPT ![r] = Err(DatabaseError(e))]
    /\ UNCHANGED <<app_error, error_response, api_key, transactions, uuid_source, payment_data, masked,
                   transaction_uuid, gateway, gateway_calls>>

\* SendResponse returning a decline as a GatewayError.
SendResponse_decline_as_error(r) ==
    /\ pc[r] = "respond"
    /\ pc' = [pc EXCEPT ![r] = "done"]
    /\ result' =
          [result EXCEPT ![r] =
              IF gateway[r].val[1] = "SUCCESS"
              THEN Ok(new_success(to_string(transaction_uuid[r]), gateway[r].val[2]))
              ELSE Err(GatewayError(gateway[r].val[2]))]
    /\ UNCHANGED <<app_error, error_response, api_key, transactions, uuid_source, payment_data, masked,
                   transaction_uuid, gateway, insert_result, gateway_calls,
                   store_writes>>

\* SendResponse answering success = true whatever the gateway decided.
SendResponse_always_success(r) ==
    /\ pc[r] = "respond"
    /\ pc' = [pc EXCEPT ![r] = "done"]
    /\ result' =
          [result EXCEPT ![r] =
              Ok(new_success(to_string(transaction_uuid[r]), gateway[r].val[2]))]
    /\ UNCHANGED <<app_error, error_response, api_key, transactions, uuid_source,
                   payment_data, masked, transaction_uuid, gateway, insert_result,
                   gateway_calls, store_writes>>

\* process_payment, step 4: the PaymentResponse.
SendResponse(r) ==
    /\ pc[r] = "respond"
    /\ pc' = [pc EXCEPT ![r] = "done"]
    /\ result' =
          [result EXCEPT ![r] =
              IF gateway[r].val[1] = "SUCCESS"
              THEN Ok(new_success(to_string(transaction_uuid[r]), gateway[r].val[2]))
              ELSE Ok(new_failure(to_string(transaction_uuid[r]), gateway[r].val[2]))]
    /\ UNCHANGED <<app_error, error_response, api_key, transactions, uuid_source, payment_data, masked,
                   transaction_uuid, gateway, insert_result, gateway_calls,
                   store_writes>>

Next ==
    \/ \E r \in Reqs, data \in PaymentRequests : Receive(r, data)
    \/ \E r \in Reqs : GatewayCall(r)
    \/ \E r \in Reqs : PersistOk(r)
    \/ \E r \in Reqs, e \in SqlxErrors : PersistErr(r, e)
    \/ \E r \in Reqs : SendResponse(r)

Spec == Init /\ [][Next]_vars

\* ------------------------------------------------- the error conversion alone

\* Messages an AppError may carry: those of this program and others.
ErrorMessages ==
    { "Payment amount must be greater than zero.", "Invalid card number.",
      "API Key is missing.", "External gateway call failed: timeout",
      "External gateway call failed: 503", "Failed to start TCP listener: in use",
      "Server error: closed", "Database operation failed.", "PoolTimedOut",
      "RowNotFound", "x", "" }

\* AppError values of the five kinds.
AppErrors ==
    UNION { { InternalServerError(m), BadRequest(m), DatabaseError(m),
              EnvironmentError(m), GatewayError(m) } : m \in ErrorMessages }

\* An AppError is about to be answered.
InitErr ==
    /\ api_key = <<>>
    /\ Idle
    /\ app_error \in AppErrors
    /\ error_response = NoResponse

\* AppError::into_response
IntoResponse ==
    /\ error_response = NoResponse
    /\ error_response' = into_response(app_error)
    /\ UNCHANGED <<app_error, api_key, transactions, uuid_source, pc,
                   payment_data, masked, transaction_uuid, gateway,
                   insert_result, result, gateway_calls, store_writes>>

NextErr == IntoResponse

SpecErr == InitErr /\ [][NextErr]_vars

\* ------------------------------------------------------------------ claims

\* The request of r has arrived.
Arrived(r) == pc[r] # "idle"

\* The request of r satisfies the two validation rules as the spec states them.
ValidRequest(r) ==
    /\ payment_data[r].amount > 0
    /\ len(payment_data[r].card_number) >= 12
    /\ len(payment_data[r].card_number) <= 19

\* The card number of r starts with 4000.
DeclineCard(r) == starts_with(payment_data[r].card_number, Prefix4000)

\* The rows persisted under the transaction identifier of r.
RowsOf(r) ==
    { i \in DOMAIN transactions :
        transactions[i].transaction_uuid = transaction_uuid[r] }

\* C1: a request with amount <= 0, or with a card number shorter than 12 or
\* longer than 19 bytes, ends in BadRequest (HTTP 400) with no gateway call
\* and no INSERT, whatever the credential and the other fields are.
C1_InvalidIsRejected ==
    \A r \in Reqs :
        (Arrived(r) /\ ~ValidRequest(r)) =>
            /\ pc[r] = "done"
            /\ result[r].tag = "Err"
            /\ result[r].err.kind = "BadRequest"
            /\ http_response(result[r]).status = 400
            /\ gateway_calls[r] = 0
            /\ store_writes[r] = 0
            /\ insert_result[r] = None

\* Both rules have rejected a request: one for its amount, one (with a
\* positive amount) for its card number length.
C1_Witness ==
    \E r, q \in Reqs :
        /\ pc[r] = "done" /\ payment_data[r].amount <= 0
        /\ result[r].tag = "Err" /\ result[r].err.kind = "BadRequest"
        /\ pc[q] = "done" /\ payment_data[q].amount > 0
        /\ len(payment_data[q].card_number) > 19
        /\ result[q].tag = "Err" /\ result[q].err.kind = "BadRequest"

\* C2: for a valid request whose card number does not start with 4000, under
\* a non-empty credential of any length, the gateway call yields SUCCESS, and
\* once the INSERT has succeeded a SUCCESS row is persisted and the response
\* has success = true.
C2_ConfiguredKeySucceeds ==
    \A r \in Reqs :
        (/\ Arrived(r) /\ ValidRequest(r) /\ ~DeclineCard(r)
         /\ api_key # <<>> /\ gateway_calls[r] >= 1) =>
            /\ gateway[r].tag = "Ok"
            /\ gateway[r].val[1] = "SUCCESS"
            /\ (insert_result[r].tag = "Ok" =>
                    \E i \in RowsOf(r) : transactions[i].status = "SUCCESS")
            /\ ((pc[r] = "done" /\ insert_result[r].tag = "Ok") =>
                    result[r].tag = "Ok" /\ result[r].val.success = TRUE)

\* C3 as written: every valid request whose card number starts with 4000
\* gets the gateway outcome FAILED, whatever the credential; checked on the
\* requests whose gateway call has returned.
C3_DeclineWhateverTheKey ==
    \A r \in Reqs :
        (/\ Arrived(r) /\ ValidRequest(r) /\ DeclineCard(r)
         /\ gateway_calls[r] >= 1) =>
            /\ gateway[r].tag = "Ok"
            /\ gateway[r].val[1] = "FAILED"

\* C3 amended: for a valid request whose card number starts with 4000, under
\* a non-empty credential, the gateway call yields FAILED and never fails;
\* once the INSERT has succeeded a FAILED row is persisted, and the response
\* then has success = false.
C3_DeclineUnderKey ==
    \A r \in Reqs :
        (/\ Arrived(r) /\ ValidRequest(r) /\ DeclineCard(r)
         /\ api_key # <<>> /\ gateway_calls[r] >= 1) =>
            /\ gateway[r].tag = "Ok"
            /\ gateway[r].val[1] = "FAILED"
            /\ pc[r] # "panicked"
            /\ (insert_result[r].tag = "Ok" =>
                    \E i \in RowsOf(r) : transactions[i].status = "FAILED")
            /\ ((pc[r] = "done" /\ insert_result[r].tag = "Ok") =>
                    result[r].tag = "Ok" /\ result[r].val.success = FALSE)

\* A declined request has been persisted and answered.
C3_Witness ==
    \E r \in Reqs :
        /\ pc[r] = "done" /\ DeclineCard(r) /\ api_key # <<>>
        /\ result[r].tag = "Ok" /\ result[r].val.success = FALSE
        /\ \E i \in RowsOf(r) : transactions[i].status = "FAILED"


\* C4 as written: under an empty credential every request that returns,
\* valid or not, returns EnvironmentError (HTTP 500), and no row is persisted.
C4_EmptyKeyAlwaysEnvironmentError ==
    api_key = <<>> =>
        /\ transactions = <<>>
        /\ \A r \in Reqs :
              pc[r] = "done" =>
                 /\ result[r].tag = "Err"
                 /\ result[r].err.kind = "EnvironmentError"
                 /\ http_response(result[r]).status = 500

\* C4 amended: under an empty credential no row is persisted and no request
\* gets a PaymentResponse, whatever its content; a request that fails
\* validation returns BadRequest (HTTP 400), and every request that reaches
\* the gateway client returns EnvironmentError (HTTP 500).
C4_EmptyKeyNeverPersists ==
    api_key = <<>> =>
        /\ transactions = <<>>
        /\ \A r \in Reqs :
              /\ pc[r] \notin {"persist", "respond"}
              /\ store_writes[r] = 0
              /\ result[r].tag # "Ok"
              /\ (Arrived(r) /\ ~ValidRequest(r)) =>
                    /\ pc[r] = "done"
                    /\ result[r].tag = "Err"
                    /\ result[r].err.kind = "BadRequest"
                    /\ http_response(result[r]).status = 400
              /\ gateway_calls[r] >= 1 =>
                    /\ pc[r] = "done"
                    /\ result[r] = Err(EnvironmentError("API Key is missing."))
                    /\ http_response(result[r]).status = 500

\* Under an empty credential one request was stopped by the gateway client
\* and another one by validation.
C4_Witness ==
    /\ api_key = <<>>
    /\ \E r, q \in Reqs :
          /\ pc[r] = "done" /\ gateway_calls[r] = 1
          /\ result[r].tag = "Err" /\ result[r].err.kind = "EnvironmentError"
          /\ pc[q] = "done" /\ ~ValidRequest(q)
          /\ result[q].tag = "Err" /\ result[q].err.kind = "BadRequest"

\* C5: when the gateway client returns an error for a request, the handler
\* returns that error, and the request makes no INSERT and has no row.
C5_GatewayErrorSkipsStore ==
    \A r \in Reqs :
        (/\ gateway_calls[r] >= 1
         /\ call_external_payment_gateway(api_key, payment_data[r]).tag = "Err") =>
            /\ pc[r] = "done"
            /\ result[r] = call_external_payment_gateway(api_key, payment_data[r])
            /\ result[r].err.kind \in {"EnvironmentError", "GatewayError"}
            /\ store_writes[r] = 0
            /\ insert_result[r] = None
            /\ RowsOf(r) = {}

\* The gateway client has returned an error for a request, and the request
\* has ended with it.
C5_Witness ==
    \E r \in Reqs :
        /\ gateway_calls[r] = 1
        /\ gateway[r].tag = "Err"
        /\ pc[r] = "done"
        /\ result[r].tag = "Err"

\* C6: every PaymentResponse returned has exactly one row whose
\* transaction_uuid, as text, is the response's transaction_id.
C6_ResponseHasOneRow ==
    \A r \in Reqs :
        result[r].tag = "Ok" =>
            Cardinality({ i \in DOMAIN transactions :
                            to_string(transactions[i].transaction_uuid)
                                = result[r].val.transaction_id }) = 1

\* Two requests were in flight together, both are persisted and one is
\* answered.
C6_Witness ==
    \E r, q \in Reqs :
        /\ r # q
        /\ result[r].tag = "Ok"
        /\ pc[q] = "respond"
        /\ Len(transactions) = 2

\* C7: when the INSERT fails, the request returns DatabaseError, answered as
\* HTTP 500 with the fixed message and not the driver's error; no row has
\* its identifier; the gateway was called once and the INSERT run once.
C7_StoreFailureIsTerminal ==
    \A r \in Reqs :
        insert_result[r].tag = "Err" =>
            /\ pc[r] = "done"
            /\ result[r].tag = "Err"
            /\ result[r].err.kind = "DatabaseError"
            /\ http_response(result[r]) =
                  [status |-> 500, body |-> [error |-> "Database operation failed."]]
            /\ http_response(result[r]).body.error \notin SqlxErrors
            /\ gateway[r].tag = "Ok"
            /\ gateway[r].val[1] \in {"SUCCESS", "FAILED"}
            /\ RowsOf(r) = {}
            /\ gateway_calls[r] = 1
            /\ store_writes[r] = 1

\* The INSERT failed after the gateway approved one request and after it
\* declined another.
C7_Witness ==
    \E r, q \in Reqs :
        /\ insert_result[r].tag = "Err" /\ gateway[r].val[1] = "SUCCESS"
        /\ insert_result[q].tag = "Err" /\ gateway[q].val[1] = "FAILED"

\* C8: no request ends in an abnormal abort of the handler: a request that
\* has stopped has returned a PaymentResponse or one of the five error kinds.
C8_NoAbnormalEnd ==
    \A r \in Reqs :
        /\ pc[r] # "panicked"
        /\ pc[r] = "done" =>
              \/ result[r].tag = "Ok"
              \/ /\ result[r].tag = "Err"
                 /\ result[r].err.kind \in
                       {"BadRequest", "EnvironmentError", "GatewayError",
                        "DatabaseError", "InternalServerError"}

\* C9: per request the gateway is called at most once and the INSERT run at
\* most once, exactly once each past that stage; the INSERT never precedes
\* the gateway's decision nor the response the INSERT.
C9_OnceEachInOrder ==
    \A r \in Reqs :
        /\ gateway_calls[r] <= 1
        /\ store_writes[r] <= 1
        /\ pc[r] \in {"persist", "respond"} => gateway_calls[r] = 1
        /\ gateway[r] # None => gateway_calls[r] = 1
        /\ pc[r] = "respond" => store_writes[r] = 1
        /\ insert_result[r] # None => store_writes[r] = 1
        /\ store_writes[r] >= 1 => (gateway_calls[r] = 1 /\ gateway[r].tag = "Ok")
        /\ result[r].tag = "Ok" =>
              (store_writes[r] = 1 /\ insert_result[r].tag = "Ok")
        /\ pc[r] \in {"idle", "gateway"} => store_writes[r] = 0
        /\ pc[r] = "idle" => gateway_calls[r] = 0

\* One request went through the gateway, the INSERT and the response, and
\* another one ended on a failed INSERT.
C9_Witness ==
    \E r, q \in Reqs :
        /\ result[r].tag = "Ok" /\ gateway_calls[r] = 1 /\ store_writes[r] = 1
        /\ pc[q] = "done" /\ insert_result[q].tag = "Err"
        /\ gateway_calls[q] = 1 /\ store_writes[q] = 1

\* C10: a request whose INSERT succeeded returns HTTP 200 with the gateway's
\* message: success = false with the decline message when the outcome is
\* FAILED, success = true when it is SUCCESS; never an AppError.
C10_DeclineIsAResponse ==
    \A r \in Reqs :
        (pc[r] = "done" /\ insert_result[r].tag = "Ok") =>
            /\ result[r].tag = "Ok"
            /\ http_response(result[r]).status = 200
            /\ http_response(result[r]).body.message = gateway[r].val[2]
            /\ gateway[r].val[1] = "FAILED" =>
                  /\ http_response(result[r]).body.success = FALSE
                  /\ http_response(result[r]).body.message
                        = "Card declined: Insufficient funds (Simulation)."
            /\ gateway[r].val[1] = "SUCCESS" =>
                  /\ http_response(result[r]).body.success = TRUE
                  /\ http_response(result[r]).body.message
                        = "Payment successfully processed by external gateway."

\* A declined request and an approved one have both been answered.
C10_Witness ==
    \E r, q \in Reqs :
        /\ pc[r] = "done" /\ insert_result[r].tag = "Ok"
        /\ gateway[r].val[1] = "FAILED" /\ result[r].tag = "Ok"
        /\ pc[q] = "done" /\ insert_result[q].tag = "Ok"
        /\ gateway[q].val[1] = "SUCCESS" /\ result[q].tag = "Ok"


\* The status the error taxonomy gives each kind.
StatusOfKind(kind) ==
    CASE kind = "BadRequest" -> 400
      [] kind = "EnvironmentError" -> 500
      [] kind = "GatewayError" -> 502
      [] kind = "DatabaseError" -> 500
      [] kind = "InternalServerError" -> 500

\* C11: an error response has the status of its kind, whatever the message:
\* BadRequest 400, EnvironmentError 500, GatewayError 502, DatabaseError 500,
\* InternalServerError 500; no error response has another status.
C11_OneStatusPerKind ==
    error_response # NoResponse =>
        /\ error_response.status = StatusOfKind(app_error.kind)
        /\ error_response.status \in {400, 500, 502}

\* A GatewayError has been answered with 502.
C11_Witness ==
    /\ app_error.kind = "GatewayError"
    /\ app_error.msg = "External gateway call failed: timeout"
    /\ error_response.status = 502


\* The last n characters of s.
LastChars(s, n) == SubSeq(s, Len(s) - n + 1, Len(s))

\* C12: for every card number that passes validation the mask is made
\* without failure, it is XXXX-XXXX-XXXX- followed by the last 4 characters
\* of the card number, and it is the masked_card_number of the row.
C12_MaskIsLastFour ==
    \A r \in Reqs :
        (Arrived(r) /\ ValidRequest(r)) =>
            /\ ~(pc[r] = "panicked" /\ gateway_calls[r] = 0)
            /\ pc[r] # "panicked" =>
                  masked[r] = MaskPrefix \o LastChars(payment_data[r].card_number, 4)
            /\ \A i \in RowsOf(r) :
                  transactions[i].masked_card_number
                      = MaskPrefix \o LastChars(payment_data[r].card_number, 4)


\* The card number of r has a length outside [12, 19].
BadCardLength(r) ==
    \/ len(payment_data[r].card_number) < 12
    \/ len(payment_data[r].card_number) > 19

\* C13: the first failing rule wins: a request with amount <= 0 is rejected
\* with the amount message also when its card number length is outside
\* [12, 19], and the card number message is returned only when amount > 0.
C13_FirstFailureWins ==
    \A r \in Reqs :
        Arrived(r) =>
            /\ payment_data[r].amount <= 0 =>
                  /\ result[r].tag = "Err"
                  /\ http_response(result[r]) =
                        [status |-> 400,
                         body |-> [error |-> "Payment amount must be greater than zero."]]
            /\ (payment_data[r].amount > 0 /\ BadCardLength(r)) =>
                  /\ result[r].tag = "Err"
                  /\ http_response(result[r]) =
                        [status |-> 400, body |-> [error |-> "Invalid card number."]]
            /\ (result[r].tag = "Err" /\ result[r].err.msg = "Invalid card number.") =>
                  payment_data[r].amount > 0

\* A request failing both rules got the amount message, and one failing
\* only the second rule got the card number message.
C13_Witness ==
    \E r, q \in Reqs :
        /\ Arrived(r) /\ payment_data[r].amount <= 0 /\ BadCardLength(r)
        /\ result[r] = Err(BadRequest("Payment amount must be greater than zero."))
        /\ Arrived(q) /\ payment_data[q].amount > 0 /\ BadCardLength(q)
        /\ result[q] = Err(BadRequest("Invalid card number."))


\* C14: under an empty credential a valid request whose card number starts
\* with 4000 ends in EnvironmentError ("API Key is missing."), never in a
\* FAILED outcome, and has no row.
C14_KeyCheckBeforeDecline ==
    \A r \in Reqs :
        (Arrived(r) /\ ValidRequest(r) /\ DeclineCard(r) /\ api_key = <<>>) =>
            /\ pc[r] \in {"gateway", "done"}
            /\ gateway[r].tag # "Ok"
            /\ RowsOf(r) = {}
            /\ pc[r] = "done" =>
                  result[r] = Err(EnvironmentError("API Key is missing."))


\* C15: the table is append-only: every step keeps the rows it finds, each
\* with its content, and adds at most one row; no request ever has more than
\* one row.
C15_AppendOnly ==
    [][/\ Len(transactions') >= Len(transactions)
       /\ Len(transactions') <= Len(transactions) + 1
       /\ \A i \in DOMAIN transactions : transactions'[i] = transactions[i]
       /\ \A r \in Reqs : Cardinality(RowsOf(r)') <= 1]_vars

\* Both requests have a row, and the request of the first row has gone on
\* to its response.
C15_Witness ==
    /\ Len(transactions) = 2
    /\ \E r \in Reqs :
          /\ pc[r] = "done"
          /\ transactions[1].transaction_uuid = transaction_uuid[r]


\* The requests whose transaction identifier is that of row i.
OwnersOf(i) ==
    { r \in Reqs : transaction_uuid[r] = transactions[i].transaction_uuid }

\* C16: the status of every row is SUCCESS or FAILED, and it is the outcome
\* the gateway client returned for the request of the row.
C16_StatusIsOutcome ==
    \A i \in DOMAIN transactions :
        /\ transactions[i].status \in {"SUCCESS", "FAILED"}
        /\ OwnersOf(i) # {}
        /\ \A r \in OwnersOf(i) :
              /\ gateway[r].tag = "Ok"
              /\ transactions[i].status = gateway[r].val[1]
              /\ call_external_payment_gateway(api_key, payment_data[r])
                    = Ok(<<transactions[i].status, gateway[r].val[2]>>)

\* The table holds a SUCCESS row and a FAILED row.
C16_Witness ==
    \E i, j \in DOMAIN transactions :
        /\ transactions[i].status = "SUCCESS"
        /\ transactions[j].status = "FAILED"

\* C19: for every 200 response, success is true exactly when the row with
\* the response's transaction identifier has status SUCCESS.
C19_SuccessFlagMatchesRow ==
    \A r \in Reqs :
        result[r].tag = "Ok" =>
            /\ \E i \in DOMAIN transactions :
                  to_string(transactions[i].transaction_uuid)
                      = http_response(result[r]).body.transaction_id
            /\ \A i \in DOMAIN transactions :
                  to_string(transactions[i].transaction_uuid)
                      = http_response(result[r]).body.transaction_id =>
                  /\ transactions[i].status \in {"SUCCESS", "FAILED"}
                  /\ http_response(result[r]).body.success
                        <=> transactions[i].status = "SUCCESS"

\* A response with success = false and one with success = true have been
\* returned.
C19_Witness ==
    \E r, q \in Reqs :
        /\ result[r].tag = "Ok" /\ result[r].val.success = FALSE
        /\ result[q].tag = "Ok" /\ result[q].val.success = TRUE
        /\ Len(transactions) = 2

\* C20: every row has amount > 0 and the amount and currency of the request
\* that created it; a request that fails validation has no row.
C20_RowKeepsAmountAndCurrency ==
    /\ \A i \in DOMAIN transactions :
          /\ transactions[i].amount > 0
          /\ OwnersOf(i) # {}
          /\ \A r \in OwnersOf(i) :
                /\ ValidRequest(r)
                /\ transactions[i].amount = payment_data[r].amount
                /\ transactions[i].currency = payment_data[r].currency
    /\ \A r \in Reqs : (Arrived(r) /\ ~ValidRequest(r)) => RowsOf(r) = {}

\* A USD request and a TRY request both have their row.
C20_Witness ==
    \E i, j \in DOMAIN transactions :
        /\ transactions[i].currency = "USD"
        /\ transactions[j].currency = "TRY"
        /\ transactions[i].amount = 1000


\* What a row says apart from its identifiers.
RowContent(amount, currency, status, masked_card_number) ==
    [amount |-> amount, currency |-> currency, status |-> status,
     masked_card_number |-> masked_card_number]

\* What one request yields when it runs alone, under credential key and with
\* INSERT outcome ins: its result (a response without its identifier, an
\* error, or an abort) and the content of the rows it leaves.
Alone(key, pd, ins) ==
    LET v == basic_validation(pd)
    IN IF v.tag = "Err" THEN [result |-> v, rows |-> {}]
       ELSE LET m == masked_card(pd.card_number)
            IN IF m.tag = "Panic" THEN [result |-> Panic, rows |-> {}]
               ELSE LET g == call_external_payment_gateway(key, pd)
                    IN IF g.tag # "Ok" THEN [result |-> g, rows |-> {}]
                       ELSE IF ins.tag = "Err"
                       THEN [result |-> Err(DatabaseError(ins.err)), rows |-> {}]
                       ELSE [result |-> Ok([success |-> g.val[1] = "SUCCESS",
                                            message |-> g.val[2]]),
                             rows |-> {RowContent(pd.amount, pd.currency,
                                                  g.val[1], m.val)}]

\* The result of r without the generated identifier.
ResultOf(r) ==
    IF result[r].tag = "Ok"
    THEN Ok([success |-> result[r].val.success, message |-> result[r].val.message])
    ELSE result[r]

\* The content of the rows of r.
RowContentsOf(r) ==
    { RowContent(transactions[i].amount, transactions[i].currency,
                 transactions[i].status, transactions[i].masked_card_number) :
        i \in RowsOf(r) }

\* C17: under every interleaving, a request that has ended has the result
\* and the row content it yields when run alone, whatever the other requests
\* did; and a request under way has no row but the one of its lone run.
C17_RequestsAreIndependent ==
    \A r \in Reqs :
        CASE pc[r] \in {"done", "panicked"} ->
                 LET alone == Alone(api_key, payment_data[r], insert_result[r])
                 IN /\ ResultOf(r) = alone.result
                    /\ RowContentsOf(r) = alone.rows
          [] pc[r] = "respond" ->
                 RowContentsOf(r)
                     = Alone(api_key, payment_data[r], insert_result[r]).rows
          [] pc[r] \in {"idle", "gateway", "persist"} -> RowContentsOf(r) = {}

\* A request that arrived second persisted first; the first one was
\* declined and the second one approved, and both have ended.
C17_Witness ==
    \E r, q \in Reqs :
        /\ transaction_uuid[r] = 1 /\ transaction_uuid[q] = 2
        /\ Len(transactions) = 2
        /\ transactions[1].transaction_uuid = 2
        /\ pc[r] = "done" /\ result[r].tag = "Ok" /\ result[r].val.success = FALSE
        /\ pc[q] = "done" /\ result[q].tag = "Ok" /\ result[q].val.success = TRUE


\* Requests r and q are both valid and differ at most in the characters of
\* the card number before its last 4: same amount, currency and other
\* fields, card numbers of the same length with the same last 4 characters,
\* both starting with 4000 or neither.
SameButHiddenDigits(r, q) ==
    /\ ValidRequest(r) /\ ValidRequest(q)
    /\ [payment_data[r] EXCEPT !.card_number = <<>>]
         = [payment_data[q] EXCEPT !.card_number = <<>>]
    /\ Len(payment_data[r].card_number) = Len(payment_data[q].card_number)
    /\ LastChars(payment_data[r].card_number, 4)
         = LastChars(payment_data[q].card_number, 4)
    /\ DeclineCard(r) <=> DeclineCard(q)

\* C18: two valid requests that differ only in card-number characters other
\* than the last 4, with the same length and agreeing on the 4000 prefix,
\* persist rows equal in amount, currency, status and masked card number.
C18_HiddenDigitsStayHidden ==
    \A r, q \in Reqs :
        (RowsOf(r) # {} /\ RowsOf(q) # {} /\ SameButHiddenDigits(r, q)) =>
            \A i \in RowsOf(r), j \in RowsOf(q) :
                /\ transactions[i].amount = transactions[j].amount
                /\ transactions[i].currency = transactions[j].currency
                /\ transactions[i].status = transactions[j].status
                /\ transactions[i].masked_card_number
                     = transactions[j].masked_card_number

\* Two such requests with different card numbers have both persisted a row.
C18_Witness ==
    \E r, q \in Reqs :
        /\ Arrived(r) /\ Arrived(q) /\ SameButHiddenDigits(r, q)
        /\ payment_data[r].card_number # payment_data[q].card_number
        /\ RowsOf(r) # {} /\ RowsOf(q) # {}

====
